---- MODULE Spec2Model ----
(***************************************************************************)
(* Provider discovery, selection and failover of voice_mode:               *)
(*   voice_mode/provider_discovery.py  (ProviderDiscovery, VoiceProvider)  *)
(*   voice_mode/simple_failover.py     (SimpleFailover,                    *)
(*                                      execute_with_failover)             *)
(*   voice_mode/openai_error_parser.py (OpenAIErrorParser)                 *)
(*                                                                         *)
(* Python values are modelled as records so that values of different       *)
(* Python types can be compared: None is [none |-> TRUE], a str is         *)
(* [str |-> s], a bool is [bool |-> b], a list is [list |-> seq].          *)
(* The text of an exception (class name, message) is a sequence of atoms;  *)
(* Python's substring test `a in b` is the contiguous-subsequence test.    *)
(***************************************************************************)
EXTENDS Integers, Sequences, FiniteSets, TLC

VARIABLES
    OPENAI_API_KEY,        \* voice_mode.config.OPENAI_API_KEY ("" when unset)
    KOKORO_SERVER_URL,     \* voice_mode.config.KOKORO_SERVER_URL
    WHISPER_SERVER_URL,    \* voice_mode.config.WHISPER_SERVER_URL
    DEFAULT_TTS_PROVIDER,  \* voice_mode.config.DEFAULT_TTS_PROVIDER
    DEFAULT_STT_PROVIDER,  \* voice_mode.config.DEFAULT_STT_PROVIDER
    providers,             \* _registry.providers : Dict[str, VoiceProvider]
    insertion,             \* the keys of _registry.providers in dict (insertion) order
    discoverRaised,        \* exception the last discover_all let escape, or None
    lastProbe,             \* what the last observed discover_all run met and did
    probed,                \* the providers whose probe has run at least once
    task,                  \* where each caller of get_provider_registry stands
    handed,                \* what each get_provider_registry call met and did
    pc,                    \* position of the current request
    stt_or_tts,            \* capability of the current request
    preferred,             \* preferred provider name handed to selection
    plan,                  \* <<primary, secondary>> of get_*_failover_plan
    chosen,                \* return value of get_preferred_tts / get_preferred_stt
    queried,               \* return value of get_healthy_tts_providers / _stt_
    impl,                  \* which executor runs the request
    kwargs0,               \* keyword arguments as the caller supplied them
    kwargs,                \* the executor's kwargs dict
    e,                     \* exception bound by `except Exception as e`, or None
    calls,                 \* the calls made to the operation function(s), in order
    result,                \* value returned to the caller, or None
    raised,                \* exception surfaced to the caller, or None
    deadlineExceeded       \* whether the caller's overall deadline had passed
                           \* when it cancelled the request

cfgVars == <<OPENAI_API_KEY, KOKORO_SERVER_URL, WHISPER_SERVER_URL,
             DEFAULT_TTS_PROVIDER, DEFAULT_STT_PROVIDER>>
regVars == <<providers, insertion, discoverRaised>>
obsVars == <<lastProbe, probed>>
coVars == <<task, handed>>
selVars == <<stt_or_tts, preferred, plan, chosen, queried>>
exeVars == <<impl, kwargs0, kwargs, e, calls, result, raised, deadlineExceeded>>
vars == <<cfgVars, regVars, obsVars, coVars, pc, selVars, exeVars>>

----------------------------------------------------------------------------
(* Python values *)

None == [none |-> TRUE]

PyStr(s) == [str |-> s]

PyBool(b) == [bool |-> b]

PyList(s) == [list |-> s]

\* dict `d` after d[k] = v
DictSet(d, k, v) == [x \in (DOMAIN d) \cup {k} |-> IF x = k THEN v ELSE d[x]]

EmptyDict == [x \in {} |-> None]

\* the key order of a dict after the assignments d[k] = ... for the keys of
\* `written`, made in the order `sequence`: a new key goes to the end, a key
\* assigned again keeps its place
KeysAfter(keys, written, sequence) ==
    keys \o SelectSeq(sequence,
                      LAMBDA k : k \in written /\ \A i \in DOMAIN keys : keys[i] # k)

\* list(d.values()) of a dict with key order `keys`
Values(d, keys) == [i \in DOMAIN keys |-> d[keys[i]]]

\* Python's `sub in s` on str, both given as sequences of atoms
Contains(s, sub) ==
    \E i \in 1..(Len(s) - Len(sub) + 1) : SubSeq(s, i, i + Len(sub) - 1) = sub

\* str.lower(), atom by atom
LowerAtom(a) ==
    CASE a = "Connection" -> "connection"
      [] a = "Refused" -> "refused"
      [] a = "Primary failed" -> "primary failed"
      [] OTHER -> a

Lower(s) == [i \in DOMAIN s |-> LowerAtom(s[i])]

----------------------------------------------------------------------------
(* Exceptions: class name and message.  str(e) is the message only. *)

Exc(cls, msg) == [cls |-> cls, msg |-> msg]

Str(exc) == exc.msg

\* raised by the test stub of simple_failover.py
ValueErrorPrimaryFailed == Exc(<<"ValueError">>, <<"Primary failed">>)

\* the scenario's error: its message is its identifier
ConnectionRefused == Exc(<<"MockError">>, <<"Connection", "Refused">>)

InvalidRequest == Exc(<<"InvalidRequestError">>, <<"no such voice">>)

\* the instances of Exception an operation function raises
Exceptions == {ValueErrorPrimaryFailed, ConnectionRefused, InvalidRequest}

\* asyncio.CancelledError: a BaseException, not an Exception
CancelledError == Exc(<<"CancelledError">>, <<>>)

\* the values an operation function returns
Results == {[value |-> "audio-1"], [value |-> "audio-2"]}

----------------------------------------------------------------------------
(* openai_error_parser.py *)

\* OpenAIErrorParser.parse_error(e)["category"]
parse_error_category(exc) ==
    LET error_name == exc.cls
        error_msg == Str(exc)
    IN  IF Contains(error_msg, <<"insufficient_quota">>)
           \/ Contains(Lower(error_msg), <<"billing">>) THEN "quota"
        ELSE IF Contains(Lower(error_msg), <<"rate_limit">>)
           \/ Contains(error_name, <<"RateLimitError">>) THEN "rate_limit"
        ELSE IF Contains(Lower(error_msg), <<"api_key">>)
           \/ Contains(error_name, <<"AuthenticationError">>) THEN "auth"
        ELSE IF Contains(Lower(error_msg), <<"overloaded">>)
           \/ Contains(error_msg, <<"engine_overloaded">>) THEN "server_load"
        ELSE IF Contains(error_name, <<"InvalidRequestError">>)
           \/ Contains(error_msg, <<"invalid_request">>) THEN "invalid_request"
        ELSE IF Contains(Lower(error_msg), <<"connection">>)
           \/ Contains(error_name, <<"Timeout">>) THEN "connection"
        ELSE "unknown"

\* OpenAIErrorParser.should_failover(parse_error(e))
should_failover(exc) ==
    parse_error_category(exc) \in {"quota", "rate_limit", "server_load", "connection", "auth"}

----------------------------------------------------------------------------
(* provider_discovery.py: records and probes *)

\* url=None of a VoiceProvider
NoUrl == "<None>"

\* VoiceProvider(...) with the dataclass defaults priority=100, metadata={};
\* the type string is a sequence of atoms ("tts_stt" is <<"tts", "_", "stt">>)
VoiceProvider(name, type, url, is_local, healthy, models, voices) ==
    [name |-> name, type |-> type, url |-> url, priority |-> 100,
     is_local |-> is_local, healthy |-> healthy,
     available_models |-> models, available_voices |-> voices]

\* what the GET of a probe can come to: a response with a status and a body,
\* or an exception of httpx
Response(status, body) == [kind |-> "response", status |-> status, body |-> body]

TransportError(cls) == [kind |-> cls, status |-> 0, body |-> None]

\* bodies of a 200 answer of /v1/voices, as response.json() decodes them
BodyList == PyList(<<"af_sky", "am_adam">>)

BodyDictVoices == [dict |-> {"voices"}, voices |-> PyList(<<"af_sky">>)]

BodyDictVoicesStr == [dict |-> {"voices"}, voices |-> PyStr("af_sky")]

BodyDictOther == [dict |-> {"data"}, voices |-> None]

BodyScalar == PyStr("ok")

\* a body that is not JSON: response.json() raises
BodyMalformed == [malformed |-> TRUE]

Bodies == {BodyList, BodyDictVoices, BodyDictVoicesStr, BodyDictOther, BodyScalar, BodyMalformed}

ProbeOutcomes ==
    {Response(200, b) : b \in Bodies}
    \cup {Response(404, BodyScalar), Response(503, BodyScalar)}
    \cup {TransportError("ConnectError"), TransportError("TimeoutException"),
          TransportError("ReadError")}

\* the exception a probe lets escape for this outcome, or None:
\* only httpx.ConnectError and httpx.TimeoutException are caught
ProbeEscapes(r, decodes) ==
    IF r.kind = "response"
    THEN IF r.status = 200 /\ decodes /\ r.body = BodyMalformed
         THEN Exc(<<"JSONDecodeError">>, <<"Expecting value">>)
         ELSE None
    ELSE IF r.kind \in {"ConnectError", "TimeoutException"}
         THEN None
         ELSE Exc(<<r.kind>>, <<"read failed">>)

\* a check that marks openai healthy whether or not there is a key
check_openai_keyless(p) ==
    DictSet(p, "openai",
            VoiceProvider("OpenAI", <<"tts", "_", "stt">>, NoUrl, FALSE, TRUE,
                PyList(<<"tts-1", "tts-1-hd", "whisper-1">>),
                PyList(<<"alloy", "echo", "fable", "onyx", "nova", "shimmer">>)))

\* ProviderDiscovery._check_openai: the registry after it
check_openai(p) ==
    IF OPENAI_API_KEY = ""
    THEN p
    ELSE DictSet(p, "openai",
            VoiceProvider("OpenAI", <<"tts", "_", "stt">>, NoUrl, FALSE, TRUE,
                PyList(<<"tts-1", "tts-1-hd", "whisper-1">>),
                PyList(<<"alloy", "echo", "fable", "onyx", "nova", "shimmer">>)))

\* the voices _check_kokoro reads out of a decoded body
kokoro_voices(voices_data) ==
    IF "list" \in DOMAIN voices_data
    THEN voices_data
    ELSE IF "dict" \in DOMAIN voices_data /\ "voices" \in voices_data.dict
         THEN voices_data.voices
         ELSE PyList(<<>>)

\* a probe that appends the voices it reads to the voices of the record it
\* replaces
check_kokoro_accumulating(p, r) ==
    IF KOKORO_SERVER_URL = ""
    THEN p
    ELSE IF r.kind = "response"
         THEN IF r.status = 200 /\ r.body # BodyMalformed
              THEN DictSet(p, "kokoro",
                      VoiceProvider("Kokoro", <<"tts">>, KOKORO_SERVER_URL, TRUE, TRUE,
                          PyList(<<"kokoro">>),
                          IF /\ "kokoro" \in DOMAIN p
                             /\ "list" \in DOMAIN p["kokoro"].available_voices
                             /\ "list" \in DOMAIN kokoro_voices(r.body)
                          THEN PyList(p["kokoro"].available_voices.list
                                      \o kokoro_voices(r.body).list)
                          ELSE kokoro_voices(r.body)))
              ELSE p
         ELSE IF r.kind \in {"ConnectError", "TimeoutException"}
              THEN DictSet(p, "kokoro",
                      VoiceProvider("Kokoro", <<"tts">>, KOKORO_SERVER_URL, TRUE, FALSE,
                          PyList(<<>>), PyList(<<>>)))
              ELSE p

\* ProviderDiscovery._check_kokoro: the registry after it
check_kokoro(p, r) ==
    IF KOKORO_SERVER_URL = ""
    THEN p
    ELSE IF r.kind = "response"
         THEN IF r.status = 200 /\ r.body # BodyMalformed
              THEN DictSet(p, "kokoro",
                      VoiceProvider("Kokoro", <<"tts">>, KOKORO_SERVER_URL, TRUE, TRUE,
                          PyList(<<"kokoro">>), kokoro_voices(r.body)))
              ELSE p
         ELSE IF r.kind \in {"ConnectError", "TimeoutException"}
              THEN DictSet(p, "kokoro",
                      VoiceProvider("Kokoro", <<"tts">>, KOKORO_SERVER_URL, TRUE, FALSE,
                          PyList(<<>>), PyList(<<>>)))
              ELSE p

\* ProviderDiscovery._check_whisper: the registry after it (the body is not read)
check_whisper(p, r) ==
    IF WHISPER_SERVER_URL = ""
    THEN p
    ELSE IF r.kind = "response"
         THEN IF r.status = 200
              THEN DictSet(p, "whisper",
                      VoiceProvider("Whisper", <<"stt">>, WHISPER_SERVER_URL, TRUE, TRUE,
                          PyList(<<>>), PyList(<<>>)))
              ELSE p
         ELSE IF r.kind \in {"ConnectError", "TimeoutException"}
              THEN DictSet(p, "whisper",
                      VoiceProvider("Whisper", <<"stt">>, WHISPER_SERVER_URL, TRUE, FALSE,
                          PyList(<<>>), PyList(<<>>)))
              ELSE p

\* ProviderDiscovery.discover_all run by one task: openai, then kokoro, then
\* whisper; an exception escaping a probe ends the run
discover_all(p, kr, wr) ==
    LET p1 == check_openai(p)
        p2 == check_kokoro(p1, kr)
        x2 == IF KOKORO_SERVER_URL = "" THEN None ELSE ProbeEscapes(kr, TRUE)
        p3 == check_whisper(p2, wr)
        x3 == IF WHISPER_SERVER_URL = "" THEN None ELSE ProbeEscapes(wr, FALSE)
    IN  IF x2 # None
        THEN [providers |-> p2, exc |-> x2]
        ELSE [providers |-> p3, exc |-> x3]

\* the order in which discover_all runs the probes
ProbeSequence == <<"openai", "kokoro", "whisper">>

\* a TTS query that forgets the health filter
get_tts_providers_any_health(p, keys) ==
    SelectSeq(Values(p, keys),
              LAMBDA v : Contains(v.type, <<"tts">>)
                         \/ Contains(v.type, <<"tts", "_", "stt">>))

\* ProviderDiscovery.get_healthy_tts_providers
get_healthy_tts_providers(p, keys) ==
    SelectSeq(Values(p, keys),
              LAMBDA v : v.healthy /\ (Contains(v.type, <<"tts">>)
                                       \/ Contains(v.type, <<"tts", "_", "stt">>)))

\* ProviderDiscovery.get_healthy_stt_providers
get_healthy_stt_providers(p, keys) ==
    SelectSeq(Values(p, keys),
              LAMBDA v : v.healthy /\ (Contains(v.type, <<"stt">>)
                                       \/ Contains(v.type, <<"tts", "_", "stt">>)))

----------------------------------------------------------------------------
(* providers.py: the provider manager and its health check *)

\* bool(v) of a value that is None or a str
Truthy(v) == v # None /\ v # PyStr("")

\* ProviderManager.get_tts_config; the manager's tts_provider is the default
get_tts_config(provider) ==
    LET p == IF provider # "" THEN provider ELSE DEFAULT_TTS_PROVIDER
    IN  IF p = "openai"
        THEN [api_key |-> PyStr(OPENAI_API_KEY), base_url |-> None]
        ELSE IF p = "kokoro"
             THEN [api_key |-> PyStr("not-needed"), base_url |-> PyStr(KOKORO_SERVER_URL)]
             ELSE EmptyDict

\* ProviderManager.get_stt_config
get_stt_config(provider) ==
    LET p == IF provider # "" THEN provider ELSE DEFAULT_STT_PROVIDER
    IN  IF p = "openai"
        THEN [api_key |-> PyStr(OPENAI_API_KEY), base_url |-> None]
        ELSE IF p = "whisper"
             THEN [api_key |-> PyStr("not-needed"), base_url |-> PyStr(WHISPER_SERVER_URL)]
             ELSE EmptyDict

\* check_provider_health when the GET it may send comes to r
check_provider_health(provider_name, provider_type, r) ==
    LET config == IF provider_type = "tts" THEN get_tts_config(provider_name)
                  ELSE get_stt_config(provider_name)
    IN  IF DOMAIN config = {} THEN FALSE
        ELSE IF provider_name = "openai" THEN Truthy(config.api_key)
        ELSE IF ~Truthy(config.base_url) THEN FALSE
        ELSE IF r.kind = "response" THEN r.status < 500
        ELSE FALSE

----------------------------------------------------------------------------
(* selection *)

\* preferred=None
NoPreference == "<None>"

\* a preference honoured whatever the health of the preferred provider
PreferredUsable_any_health(p, pref) ==
    /\ pref # NoPreference
    /\ pref # ""
    /\ pref \in DOMAIN p

\* `preferred and preferred in self.providers and self.providers[preferred].healthy`
PreferredUsable(p, pref) ==
    /\ pref # NoPreference
    /\ pref # ""
    /\ pref \in DOMAIN p
    /\ p[pref].healthy

\* ProviderDiscovery.get_preferred_tts
get_preferred_tts(p, pref) ==
    IF PreferredUsable(p, pref) THEN p[pref]
    ELSE IF "kokoro" \in DOMAIN p /\ p["kokoro"].healthy THEN p["kokoro"]
    ELSE IF "openai" \in DOMAIN p /\ p["openai"].healthy THEN p["openai"]
    ELSE None

\* ProviderDiscovery.get_preferred_stt
get_preferred_stt(p, pref) ==
    IF PreferredUsable(p, pref) THEN p[pref]
    ELSE IF "whisper" \in DOMAIN p /\ p["whisper"].healthy THEN p["whisper"]
    ELSE IF "openai" \in DOMAIN p /\ p["openai"].healthy THEN p["openai"]
    ELSE None

\* SimpleFailover.get_stt_failover_plan
get_stt_failover_plan(pref) ==
    IF pref = "whisper" THEN <<"whisper", "openai">>
    ELSE IF pref = "openai" THEN <<"openai", "whisper">>
    ELSE IF DEFAULT_STT_PROVIDER = "whisper" THEN <<"whisper", "openai">>
    ELSE <<"openai", "whisper">>

\* a plan whose default branch pairs the configured default with the cloud
\* provider
get_tts_failover_plan_default_first(pref) ==
    IF pref = "kokoro" THEN <<"kokoro", "openai">>
    ELSE IF pref = "openai" THEN <<"openai", "kokoro">>
    ELSE <<DEFAULT_TTS_PROVIDER, "openai">>

\* SimpleFailover.get_tts_failover_plan
get_tts_failover_plan(pref) ==
    IF pref = "kokoro" THEN <<"kokoro", "openai">>
    ELSE IF pref = "openai" THEN <<"openai", "kokoro">>
    ELSE IF DEFAULT_TTS_PROVIDER = "kokoro" THEN <<"kokoro", "openai">>
    ELSE <<"openai", "kokoro">>

----------------------------------------------------------------------------
(* simple_failover.py: the two executors, one step per await *)

\* one call of an operation function: the call site that made it (the primary
\* or the secondary attempt), the function called, the keyword arguments it
\* got, and how it ended
Call(site, fn, kw) ==
    [site |-> site, fn |-> fn, kwargs |-> kw, status |-> "inflight", value |-> None]

Ended(c, status, value) == [c EXCEPT !.status = status, !.value = value]

\* keyword arguments of the primary call of execute_with_failover
primary_call_kwargs(kw, primary_provider) ==
    DictSet(kw, "provider", PyStr(primary_provider))

\* secondary call that is not marked as a fallback
secondary_call_kwargs_unmarked(kw, secondary_provider, exc) ==
    DictSet(DictSet(kw, "provider", PyStr(secondary_provider)),
            "fallback_reason", PyStr(Str(exc)))

\* secondary call whose fallback_reason is type(e).__name__ instead of str(e)
secondary_call_kwargs_class_name(kw, secondary_provider, exc) ==
    DictSet(DictSet(DictSet(kw, "provider", PyStr(secondary_provider)),
                    "is_fallback", PyBool(TRUE)),
            "fallback_reason", PyStr(exc.cls))

\* keyword arguments of the secondary call of execute_with_failover
secondary_call_kwargs(kw, secondary_provider, exc) ==
    DictSet(DictSet(DictSet(kw, "provider", PyStr(secondary_provider)),
                    "is_fallback", PyBool(TRUE)),
            "fallback_reason", PyStr(Str(exc)))

\* kwargs of try_with_failover after kwargs['_original_error'] = e
original_error_kwargs(kw, exc) == DictSet(kw, "_original_error", exc)

\* an exception surfaced with its context suppressed (`raise ... from None`,
\* or the secondary call made after the except clause has ended)
Raise_without_context(exc, handled) == [exc |-> exc, context |-> None]

\* the exception a raise statement or a failing call surfaces while `handled`
\* is being handled: Python sets its __context__ to the handled exception
Raise(exc, handled) == [exc |-> exc, context |-> handled]

\* an except clause that fails over only on the parser's failover categories
CaughtWhenShouldFailover(exc) == exc \in Exceptions /\ should_failover(exc)

\* whether the except clause of the primary attempt catches it
CaughtByExceptException(exc) == exc \in Exceptions

CallerKwargs ==
    {EmptyDict,
     DictSet(EmptyDict, "text", PyStr("hello")),
     DictSet(DictSet(EmptyDict, "text", PyStr("hello")), "provider", PyStr("auto"))}

Executors == {"execute_with_failover", "try_with_failover"}

Preferences == {NoPreference, "kokoro", "openai", "whisper"}

\* the probe outcomes the request specification draws from: one of each way
\* a probe can end (healthy record, no record written, unhealthy record,
\* escaping exception)
KokoroOutcomes ==
    {Response(200, BodyList), Response(503, BodyScalar),
     TransportError("ConnectError"), TransportError("ReadError")}

WhisperOutcomes ==
    {Response(200, BodyScalar), Response(503, BodyScalar),
     TransportError("TimeoutException")}

\* every way the whisper probe can end; it never reads the body
WhisperProbeOutcomes ==
    {Response(200, BodyScalar), Response(503, BodyScalar),
     TransportError("ConnectError"), TransportError("TimeoutException"),
     TransportError("ReadError")}

NoPlan == <<"", "">>

\* no discover_all run observed yet
NoProbe ==
    [kr |-> None, wr |-> None, repeat |-> FALSE, unchanged |-> FALSE,
     kokoro |-> None, whisper |-> None,
     health |-> [openai |-> FALSE, kokoro |-> FALSE, whisper |-> FALSE]]

\* a registry constructed with a record already marked healthy
ProviderDiscovery_init_seeded ==
    DictSet(EmptyDict, "kokoro",
            VoiceProvider("Kokoro", <<"tts">>, "http://127.0.0.1:8880", TRUE, TRUE,
                PyList(<<>>), PyList(<<>>)))

\* ProviderDiscovery.__init__: self.providers = {}
ProviderDiscovery_init == EmptyDict

\* the coroutines that call get_provider_registry on the one event loop
Callers == {"c1", "c2"}

\* no get_provider_registry call made
NoCall == [called |-> FALSE, wasEmpty |-> FALSE, ran |-> FALSE, during |-> FALSE]

Init ==
    /\ OPENAI_API_KEY \in {"", "sk-test"}
    /\ KOKORO_SERVER_URL \in {"", "http://127.0.0.1:8880"}
    /\ WHISPER_SERVER_URL \in {"", "http://127.0.0.1:2022"}
    /\ DEFAULT_TTS_PROVIDER \in {"kokoro", "openai"}
    /\ DEFAULT_STT_PROVIDER \in {"whisper", "openai"}
    /\ providers = ProviderDiscovery_init
    /\ insertion = KeysAfter(<<>>, DOMAIN ProviderDiscovery_init, ProbeSequence)
    /\ discoverRaised = None
    /\ lastProbe = NoProbe
    /\ probed = {}
    /\ task = [c \in Callers |-> "idle"]
    /\ handed = [c \in Callers |-> NoCall]
    /\ pc = "idle"
    /\ stt_or_tts = "tts"
    /\ preferred = NoPreference
    /\ plan = NoPlan
    /\ chosen = None
    /\ queried = <<>>
    /\ impl = "execute_with_failover"
    /\ kwargs0 = EmptyDict
    /\ kwargs = EmptyDict
    /\ e = None
    /\ calls = <<>>
    /\ result = None
    /\ raised = None
    /\ deadlineExceeded = FALSE

\* _registry.discover_all() run to its end by one task against backends that
\* answer kr (kokoro) and wr (whisper)
DiscoverRun(kr, wr) ==
    /\ pc = "idle"
    /\ LET d == discover_all(providers, kr, wr)
       IN  /\ providers' = d.providers
           /\ insertion' = KeysAfter(insertion, DOMAIN d.providers, ProbeSequence)
           /\ discoverRaised' = d.exc
    /\ UNCHANGED <<cfgVars, coVars, pc, selVars, exeVars>>

\* a task runs _registry.discover_all() between two requests
DiscoverAll(kr, wr) ==
    /\ DiscoverRun(kr, wr)
    /\ UNCHANGED obsVars

\* a discover_all run against backends that may answer in any way a probe can
\* end, with a note of what each probe that ran has met and of what
\* check_provider_health answers to the same backend
Refresh(kr, wr) ==
    /\ DiscoverRun(kr, wr)
    /\ LET kran == KOKORO_SERVER_URL # ""
           wran == /\ WHISPER_SERVER_URL # ""
                   /\ ~(kran /\ ProbeEscapes(kr, TRUE) # None)
       IN  /\ lastProbe' = [kr |-> kr, wr |-> wr,
                            repeat |-> lastProbe.kr = kr /\ lastProbe.wr = wr,
                            unchanged |-> providers' = providers,
                            kokoro |-> IF kran THEN kr ELSE lastProbe.kokoro,
                            whisper |-> IF wran THEN wr ELSE lastProbe.whisper,
                            health |->
                               [openai |-> check_provider_health("openai", "tts", kr),
                                kokoro |-> IF kran
                                           THEN check_provider_health("kokoro", "tts", kr)
                                           ELSE lastProbe.health.kokoro,
                                whisper |-> IF wran
                                            THEN check_provider_health("whisper", "stt", wr)
                                            ELSE lastProbe.health.whisper]]
           /\ probed' = probed \cup {"openai"}
                               \cup (IF kran THEN {"kokoro"} ELSE {})
                               \cup (IF wran THEN {"whisper"} ELSE {})

\* a new request: the caller asks the registry and the plan for the providers
\* of capability k with preference pref
Select(k, pref) ==
    /\ pc = "idle"
    /\ stt_or_tts' = k
    /\ preferred' = pref
    /\ plan' = IF k = "tts" THEN get_tts_failover_plan(pref)
                            ELSE get_stt_failover_plan(pref)
    /\ chosen' = IF k = "tts" THEN get_preferred_tts(providers, pref)
                              ELSE get_preferred_stt(providers, pref)
    /\ queried' = IF k = "tts" THEN get_healthy_tts_providers(providers, insertion)
                               ELSE get_healthy_stt_providers(providers, insertion)
    /\ pc' = "planned"
    /\ UNCHANGED <<cfgVars, obsVars, coVars, regVars, exeVars>>

\* an executor that starts the secondary call together with the primary one
Execute_speculative(im, kw) ==
    /\ pc = "planned"
    /\ impl' = im
    /\ kwargs0' = kw
    /\ kwargs' = kw
    /\ calls' = IF im = "execute_with_failover"
                THEN <<Call("primary", "operation_fn", primary_call_kwargs(kw, plan[1])),
                       Call("secondary", "operation_fn", primary_call_kwargs(kw, plan[2]))>>
                ELSE <<Call("primary", "primary_fn", kw), Call("secondary", "secondary_fn", kw)>>
    /\ pc' = "try_primary"
    /\ UNCHANGED <<cfgVars, obsVars, coVars, regVars, selVars, e, result, raised, deadlineExceeded>>

\* the caller starts an executor with the plan's providers; the executor runs
\* up to the await of the primary call
Execute(im, kw) ==
    /\ pc = "planned"
    /\ impl' = im
    /\ kwargs0' = kw
    /\ kwargs' = kw
    /\ calls' = IF im = "execute_with_failover"
                THEN <<Call("primary", "operation_fn", primary_call_kwargs(kw, plan[1]))>>
                ELSE <<Call("primary", "primary_fn", kw)>>
    /\ pc' = "try_primary"
    /\ UNCHANGED <<cfgVars, obsVars, coVars, regVars, selVars, e, result, raised, deadlineExceeded>>

\* an executor that goes on to the secondary call after the primary succeeded
PrimaryReturns_then_secondary(r) ==
    /\ pc = "try_primary"
    /\ calls' = <<Ended(calls[1], "returned", r),
                  Call("secondary", IF impl = "execute_with_failover"
                                    THEN "operation_fn" ELSE "secondary_fn",
                       IF impl = "execute_with_failover"
                       THEN primary_call_kwargs(kwargs, plan[2]) ELSE kwargs)>>
    /\ result' = r
    /\ pc' = "try_secondary"
    /\ UNCHANGED <<cfgVars, obsVars, coVars, regVars, selVars, impl, kwargs0, kwargs, e, raised,
                   deadlineExceeded>>

\* the primary call returns r: the executor returns it
PrimaryReturns(r) ==
    /\ pc = "try_primary"
    /\ calls' = [calls EXCEPT ![1] = Ended(@, "returned", r)]
    /\ result' = r
    /\ pc' = "success"
    /\ UNCHANGED <<cfgVars, obsVars, coVars, regVars, selVars, impl, kwargs0, kwargs, e, raised,
                   deadlineExceeded>>

\* an except clause that tries the primary provider once more
PrimaryFails_retry(exc, status) ==
    IF CaughtByExceptException(exc)
    THEN /\ e' = exc
         /\ kwargs' = kwargs
         /\ calls' = <<Ended(calls[1], status, exc),
                       IF impl = "execute_with_failover"
                       THEN Call("primary", "operation_fn",
                                 primary_call_kwargs(kwargs, plan[1]))
                       ELSE Call("primary", "primary_fn", kwargs)>>
         /\ pc' = "try_secondary"
         /\ UNCHANGED raised
    ELSE /\ calls' = <<Ended(calls[1], status, exc)>>
         /\ raised' = Raise(exc, None)
         /\ pc' = "fail"
         /\ UNCHANGED <<e, kwargs>>

\* the await of the primary call raises exc and the call ends with `status`:
\* an exception the except clause catches starts the secondary call (the clause
\* runs up to its await), any other reaches the caller
PrimaryFails(exc, status) ==
    IF CaughtByExceptException(exc)
    THEN /\ e' = exc
         /\ kwargs' = IF impl = "execute_with_failover"
                      THEN kwargs
                      ELSE original_error_kwargs(kwargs, exc)
         /\ calls' = <<Ended(calls[1], status, exc),
                       IF impl = "execute_with_failover"
                       THEN Call("secondary", "operation_fn",
                                 secondary_call_kwargs(kwargs, plan[2], exc))
                       ELSE Call("secondary", "secondary_fn",
                                 original_error_kwargs(kwargs, exc))>>
         /\ pc' = "try_secondary"
         /\ UNCHANGED raised
    ELSE /\ calls' = <<Ended(calls[1], status, exc)>>
         /\ raised' = Raise(exc, None)
         /\ pc' = "fail"
         /\ UNCHANGED <<e, kwargs>>

\* the primary call raises exc
PrimaryRaises(exc) ==
    /\ pc = "try_primary"
    /\ PrimaryFails(exc, "raised")
    /\ UNCHANGED <<cfgVars, obsVars, coVars, regVars, selVars, impl, kwargs0, result, deadlineExceeded>>

\* the secondary call returns r: the executor returns it
SecondaryReturns(r) ==
    /\ pc = "try_secondary"
    /\ calls' = [calls EXCEPT ![2] = Ended(@, "returned", r)]
    /\ result' = r
    /\ pc' = "success"
    /\ UNCHANGED <<cfgVars, obsVars, coVars, regVars, selVars, impl, kwargs0, kwargs, e, raised,
                   deadlineExceeded>>

\* the secondary call raises exc inside the except clause that handles e:
\* it reaches the caller (try_with_failover catches and re-raises it)
SecondaryRaises(exc) ==
    /\ pc = "try_secondary"
    /\ exc \in Exceptions
    /\ calls' = [calls EXCEPT ![2] = Ended(@, "raised", exc)]
    /\ raised' = Raise(exc, e)
    /\ pc' = "fail"
    /\ UNCHANGED <<cfgVars, obsVars, coVars, regVars, selVars, impl, kwargs0, kwargs, e, result,
                   deadlineExceeded>>

\* the caller cancels the executor's task while a call is awaited, before
\* (late = FALSE) or after (late = TRUE) its overall deadline: the await raises
\* CancelledError in the executor
Cancel(late) ==
    /\ pc \in {"try_primary", "try_secondary"}
    /\ deadlineExceeded' = late
    /\ IF pc = "try_primary"
       THEN PrimaryFails(CancelledError, "cancelled")
       ELSE /\ calls' = [calls EXCEPT ![2] = Ended(@, "cancelled", CancelledError)]
            /\ raised' = Raise(CancelledError, e)
            /\ pc' = "fail"
            /\ UNCHANGED <<e, kwargs>>
    /\ UNCHANGED <<cfgVars, obsVars, coVars, regVars, selVars, impl, kwargs0, result>>

\* the caller has its answer; the next request starts afresh
Return ==
    /\ pc \in {"success", "fail"}
    /\ pc' = "idle"
    /\ stt_or_tts' = "tts"
    /\ preferred' = NoPreference
    /\ plan' = NoPlan
    /\ chosen' = None
    /\ queried' = <<>>
    /\ impl' = "execute_with_failover"
    /\ kwargs0' = EmptyDict
    /\ kwargs' = EmptyDict
    /\ e' = None
    /\ calls' = <<>>
    /\ result' = None
    /\ raised' = None
    /\ deadlineExceeded' = FALSE
    /\ UNCHANGED <<cfgVars, obsVars, coVars, regVars>>

Next ==
    \/ \E kr \in KokoroOutcomes, wr \in WhisperOutcomes : DiscoverAll(kr, wr)
    \/ \E k \in {"tts", "stt"}, pref \in Preferences : Select(k, pref)
    \/ \E im \in Executors, kw \in CallerKwargs : Execute(im, kw)
    \/ \E r \in Results : PrimaryReturns(r)
    \/ \E exc \in Exceptions : PrimaryRaises(exc)
    \/ \E r \in Results : SecondaryReturns(r)
    \/ \E exc \in Exceptions : SecondaryRaises(exc)
    \/ \E late \in BOOLEAN : Cancel(late)
    \/ Return

Spec == Init /\ [][Next]_vars

----------------------------------------------------------------------------
(* get_provider_registry called by concurrent coroutines, one step per await *)

\* the requests the discover_all of caller c is awaiting
InFlight(c) == IF task[c] \in {"kokoro", "whisper"} THEN {task[c]} ELSE {}

\* a discover_all of a caller other than c has begun and not ended
OtherDiscovering(c) == \E d \in Callers \ {c} : InFlight(d) # {}

\* where discover_all stands after _check_kokoro (from = "kokoro") or
\* _check_whisper (from = "whisper") has passed: at the next await, or back
\* in get_provider_registry at `return _registry`
AfterProbe(from) ==
    IF from = "openai" /\ KOKORO_SERVER_URL # "" THEN "kokoro"
    ELSE IF from \in {"openai", "kokoro"} /\ WHISPER_SERVER_URL # "" THEN "whisper"
    ELSE "returned"

\* caller c moves to `to`; at `return _registry` the call notes whether another
\* caller's discover_all is in flight
MoveTo(c, to, h) ==
    /\ task' = [task EXCEPT ![c] = to]
    /\ handed' = [handed EXCEPT ![c] =
                     IF to = "returned"
                     THEN [h EXCEPT !.during = OtherDiscovering(c)]
                     ELSE h]

\* a get_provider_registry that runs discover_all on every call
get_provider_registry_always(c) ==
    /\ task[c] = "idle"
    /\ LET h == [called |-> TRUE, wasEmpty |-> DOMAIN providers = {},
                 ran |-> TRUE, during |-> FALSE]
       IN  /\ providers' = check_openai(providers)
           /\ insertion' = KeysAfter(insertion, DOMAIN providers', ProbeSequence)
           /\ MoveTo(c, AfterProbe("openai"), h)
    /\ UNCHANGED <<cfgVars, obsVars, discoverRaised, pc, selVars, exeVars>>

\* caller c calls get_provider_registry: with a registry that is not empty it
\* returns at once; with an empty one it runs discover_all up to its first
\* await (_check_openai has none)
get_provider_registry(c) ==
    /\ task[c] = "idle"
    /\ LET h == [called |-> TRUE, wasEmpty |-> DOMAIN providers = {},
                 ran |-> DOMAIN providers = {}, during |-> FALSE]
       IN  IF DOMAIN providers # {}
           THEN /\ MoveTo(c, "returned", h)
                /\ UNCHANGED <<providers, insertion>>
           ELSE /\ providers' = check_openai(providers)
                /\ insertion' = KeysAfter(insertion, DOMAIN providers', ProbeSequence)
                /\ MoveTo(c, AfterProbe("openai"), h)
    /\ UNCHANGED <<cfgVars, obsVars, discoverRaised, pc, selVars, exeVars>>

\* a probe that updates the record in place and leaves its voices as they were
KokoroResponds_in_place(c, kr) ==
    /\ task[c] = "kokoro"
    /\ providers' =
          LET q == check_kokoro(providers, kr)
          IN  IF "kokoro" \in DOMAIN providers /\ "kokoro" \in DOMAIN q
              THEN [q EXCEPT !["kokoro"].available_voices =
                                 providers["kokoro"].available_voices]
              ELSE q
    /\ insertion' = KeysAfter(insertion, DOMAIN providers', ProbeSequence)
    /\ discoverRaised' = ProbeEscapes(kr, TRUE)
    /\ IF ProbeEscapes(kr, TRUE) # None
       THEN MoveTo(c, "raised", handed[c])
       ELSE MoveTo(c, AfterProbe("kokoro"), handed[c])
    /\ UNCHANGED <<cfgVars, obsVars, pc, selVars, exeVars>>

\* the GET of caller c's kokoro probe comes to kr: _check_kokoro runs to its
\* end, and discover_all goes on to the next await or lets the exception out
KokoroResponds(c, kr) ==
    /\ task[c] = "kokoro"
    /\ providers' = check_kokoro(providers, kr)
    /\ insertion' = KeysAfter(insertion, DOMAIN providers', ProbeSequence)
    /\ discoverRaised' = ProbeEscapes(kr, TRUE)
    /\ IF ProbeEscapes(kr, TRUE) # None
       THEN MoveTo(c, "raised", handed[c])
       ELSE MoveTo(c, AfterProbe("kokoro"), handed[c])
    /\ UNCHANGED <<cfgVars, obsVars, pc, selVars, exeVars>>

\* the GET of caller c's whisper probe comes to wr
WhisperResponds(c, wr) ==
    /\ task[c] = "whisper"
    /\ providers' = check_whisper(providers, wr)
    /\ insertion' = KeysAfter(insertion, DOMAIN providers', ProbeSequence)
    /\ discoverRaised' = ProbeEscapes(wr, FALSE)
    /\ IF ProbeEscapes(wr, FALSE) # None
       THEN MoveTo(c, "raised", handed[c])
       ELSE MoveTo(c, AfterProbe("whisper"), handed[c])
    /\ UNCHANGED <<cfgVars, obsVars, pc, selVars, exeVars>>

\* caller c has its registry (or its exception) and may call again
Release(c) ==
    /\ task[c] \in {"returned", "raised"}
    /\ task' = [task EXCEPT ![c] = "idle"]
    /\ handed' = [handed EXCEPT ![c] = NoCall]
    /\ UNCHANGED <<cfgVars, regVars, obsVars, pc, selVars, exeVars>>

RegNext ==
    \/ \E c \in Callers : get_provider_registry(c)
    \/ \E c \in Callers, kr \in ProbeOutcomes : KokoroResponds(c, kr)
    \/ \E c \in Callers, wr \in WhisperProbeOutcomes : WhisperResponds(c, wr)
    \/ \E c \in Callers : Release(c)

RegSpec == Init /\ [][RegNext]_vars

\* the registry alone: discover_all run again and again
DiscNext == \E kr \in ProbeOutcomes, wr \in WhisperProbeOutcomes : Refresh(kr, wr)

DiscSpec == Init /\ [][DiscNext]_vars

TypeOK ==
    /\ pc \in {"idle", "planned", "try_primary", "try_secondary", "success", "fail"}
    /\ DOMAIN providers \subseteq {"openai", "kokoro", "whisper"}
    /\ Len(calls) <= 2

----------------------------------------------------------------------------
(* Properties *)

\* the calls made at one call site of the running executor
SiteCalls(site) == {i \in DOMAIN calls : calls[i].site = site}

Started == pc \in {"try_primary", "try_secondary", "success", "fail"}

\* the providers the registry knows for capability k, healthy or not
KnownFor(k) == {n \in DOMAIN providers : Contains(providers[n].type, <<k>>)}

\* C1: in execute_with_failover, once the primary call (provider=primary) has
\* raised an exception, a secondary call has been made with provider=secondary
\* and is_fallback=True; when that call returns, its value is exactly what the
\* executor returns, and no error is surfaced.
C1_FailoverOnPrimaryException ==
    (impl = "execute_with_failover" /\ Started /\ calls[1].status = "raised") =>
        /\ calls[1].kwargs["provider"] = PyStr(plan[1])
        /\ Len(calls) = 2
        /\ calls[2].kwargs["provider"] = PyStr(plan[2])
        /\ "is_fallback" \in DOMAIN calls[2].kwargs
        /\ calls[2].kwargs["is_fallback"] = PyBool(TRUE)
        /\ (calls[2].status = "returned" =>
                pc = "success" /\ result = calls[2].value /\ raised = None)

C1_Witness ==
    /\ impl = "execute_with_failover"
    /\ pc = "success"
    /\ Len(calls) = 2
    /\ calls[1].status = "raised"
    /\ calls[2].status = "returned"
    /\ result = calls[2].value

\* C2: in both executors the primary is called exactly once, at most one call
\* is in flight at any time, and whenever a secondary call exists the primary
\* call has already ended by raising.
C2_NoSpeculativeCalls ==
    /\ Cardinality({i \in DOMAIN calls : calls[i].status = "inflight"}) <= 1
    /\ Started => Cardinality(SiteCalls("primary")) = 1
    /\ \A i \in SiteCalls("secondary") :
          \E j \in SiteCalls("primary") : j < i /\ calls[j].status = "raised"

C2_Witness ==
    /\ pc = "try_secondary"
    /\ impl = "try_with_failover"
    /\ calls[1].status = "raised"
    /\ calls[2].status = "inflight"

\* C3: when the primary call and the secondary call both raise, the executor
\* fails with the secondary's exception, whose context (__context__) is the
\* primary's exception: both errors are recoverable from what the caller gets.
C3_BothFailCombinedError ==
    (Len(calls) = 2 /\ calls[1].status = "raised" /\ calls[2].status = "raised") =>
        /\ pc = "fail"
        /\ raised # None
        /\ raised.exc = calls[2].value
        /\ raised.context = calls[1].value
        /\ result = None

C3_Witness ==
    /\ pc = "fail"
    /\ Len(calls) = 2
    /\ calls[1].status = "raised"
    /\ calls[2].status = "raised"
    /\ calls[1].value # calls[2].value
    /\ raised = [exc |-> calls[2].value, context |-> calls[1].value]

\* C4: when the registry knows exactly one provider for the capability of the
\* request and the primary call raises, the operation is called for the primary
\* only and the primary's exception is what the caller gets.
C4_SingleAttemptMode ==
    (Started /\ Cardinality(KnownFor(stt_or_tts)) = 1 /\ calls[1].status = "raised") =>
        /\ Len(calls) = 1
        /\ pc = "fail"
        /\ raised # None
        /\ raised.exc = calls[1].value

\* C5: in execute_with_failover the primary call gets the caller's keyword
\* arguments with provider=primary and neither is_fallback nor fallback_reason;
\* the secondary call gets the caller's keyword arguments with
\* provider=secondary, is_fallback=True and fallback_reason=str(primary error),
\* so a primary error whose message holds "ConnectionRefused" gives a
\* fallback_reason that holds it; the executor's kwargs stay as the caller
\* supplied them.
C5_FallbackArguments ==
    (impl = "execute_with_failover" /\ Started) =>
        /\ kwargs = kwargs0
        /\ DOMAIN calls[1].kwargs = DOMAIN kwargs0 \cup {"provider"}
        /\ \A k \in DOMAIN kwargs0 \ {"provider"} : calls[1].kwargs[k] = kwargs0[k]
        /\ calls[1].kwargs["provider"] = PyStr(plan[1])
        /\ Len(calls) = 2 =>
            /\ DOMAIN calls[2].kwargs =
                  DOMAIN kwargs0 \cup {"provider", "is_fallback", "fallback_reason"}
            /\ \A k \in DOMAIN kwargs0 \ {"provider"} : calls[2].kwargs[k] = kwargs0[k]
            /\ calls[2].kwargs["provider"] = PyStr(plan[2])
            /\ calls[2].kwargs["is_fallback"] = PyBool(TRUE)
            /\ calls[2].kwargs["fallback_reason"] = PyStr(calls[1].value.msg)
            /\ (Contains(calls[1].value.msg, <<"Connection", "Refused">>) =>
                  Contains(calls[2].kwargs["fallback_reason"].str,
                           <<"Connection", "Refused">>))

C5_Witness ==
    /\ impl = "execute_with_failover"
    /\ pc = "success"
    /\ Len(calls) = 2
    /\ kwargs0 # EmptyDict
    /\ plan = <<"kokoro", "openai">>
    /\ calls[1].value = ConnectionRefused
    /\ calls[2].kwargs["fallback_reason"] = PyStr(<<"Connection", "Refused">>)

\* C6: when the primary call returns, the executor returns the primary's value
\* and makes no secondary call.
C6_PrimarySuccess ==
    (Started /\ calls[1].status = "returned") =>
        /\ pc = "success"
        /\ Len(calls) = 1
        /\ result = calls[1].value
        /\ raised = None

C6_Witness ==
    /\ pc = "success"
    /\ Len(calls) = 1
    /\ calls[1].status = "returned"
    /\ result \in Results

\* C7: within one execution each call site is used at most once and no provider
\* is called twice, so there are at most two calls; and when no call is in
\* flight any more the executor is in SUCCESS or FAIL.
C7_NoRetries ==
    /\ Len(calls) <= 2
    /\ Cardinality(SiteCalls("primary")) <= 1
    /\ Cardinality(SiteCalls("secondary")) <= 1
    /\ impl = "execute_with_failover" =>
          \A i, j \in DOMAIN calls :
              i # j => calls[i].kwargs["provider"] # calls[j].kwargs["provider"]
    /\ (Started /\ \A i \in DOMAIN calls : calls[i].status # "inflight") =>
          pc \in {"success", "fail"}
    /\ pc \in {"success", "fail"} => \A i \in DOMAIN calls : calls[i].status # "inflight"

C7_Witness ==
    /\ pc = "fail"
    /\ Len(calls) = 2
    /\ calls[1].status = "raised"
    /\ calls[2].status = "raised"
    /\ impl = "execute_with_failover"

\* C8: every exception the primary call raises is followed by exactly one
\* secondary attempt, whatever category the error parser gives it, also when
\* should_failover is false for it (invalid_request, unknown).
C8_UnconditionalFailover ==
    (Started /\ calls[1].status = "raised") =>
        /\ Cardinality(SiteCalls("secondary")) = 1
        /\ calls[2].site = "secondary"

C8_Witness ==
    /\ Started
    /\ calls[1].status = "raised"
    /\ parse_error_category(calls[1].value) = "invalid_request"
    /\ ~should_failover(calls[1].value)
    /\ Len(calls) = 2
    /\ calls[2].status # "inflight"

\* C9: a primary call aborted by cancellation is followed by the secondary
\* attempt like any exception, unless the overall deadline has passed: then no
\* secondary attempt is made and the caller gets a timeout error.
C9_Cancellation ==
    (Started /\ calls[1].status = "cancelled") =>
        IF deadlineExceeded
        THEN /\ Len(calls) = 1
             /\ pc = "fail"
             /\ Contains(raised.exc.cls, <<"TimeoutError">>)
        ELSE /\ Len(calls) = 2
             /\ calls[2].site = "secondary"

\* C10: with openai and kokoro both in the registry and healthy and no
\* preference, TTS selection gives primary kokoro and secondary openai,
\* whatever DEFAULT_TTS_PROVIDER is.
C10_LocalFirstSelection ==
    (/\ pc = "planned"
     /\ stt_or_tts = "tts"
     /\ preferred = NoPreference
     /\ {"openai", "kokoro"} \subseteq DOMAIN providers
     /\ providers["openai"].healthy
     /\ providers["kokoro"].healthy) =>
        /\ plan = <<"kokoro", "openai">>
        /\ chosen = providers["kokoro"]

\* the local provider of a capability
LocalOf(k) == IF k = "tts" THEN "kokoro" ELSE "whisper"

\* the registry holds a healthy record under name n
HealthyIn(n) == n \in DOMAIN providers /\ providers[n].healthy

\* C11: get_preferred_tts / get_preferred_stt return the preferred provider
\* when it is in the registry and healthy; when it is absent or unhealthy (or
\* no preference is given) they return the local-first automatic choice: the
\* local provider of the capability if healthy, else openai if healthy.
C11_PreferredWins ==
    pc # "idle" =>
        IF preferred # NoPreference /\ HealthyIn(preferred)
        THEN chosen = providers[preferred]
        ELSE chosen = IF HealthyIn(LocalOf(stt_or_tts)) THEN providers[LocalOf(stt_or_tts)]
                      ELSE IF HealthyIn("openai") THEN providers["openai"]
                      ELSE None

C11_Witness ==
    /\ pc = "planned"
    /\ stt_or_tts = "tts"
    /\ preferred = "openai"
    /\ HealthyIn("kokoro")
    /\ HealthyIn("openai")
    /\ chosen = providers["openai"]

\* C12: whatever the preference and the configured defaults, the failover plan
\* names two different providers of different families: the local provider of
\* the capability and openai, in one order or the other.
C12_PlanFamilies ==
    pc # "idle" =>
        /\ plan[1] # plan[2]
        /\ \/ plan = <<LocalOf(stt_or_tts), "openai">>
           \/ plan = <<"openai", LocalOf(stt_or_tts)>>

C12_Witness ==
    /\ pc = "planned"
    /\ stt_or_tts = "tts"
    /\ preferred = NoPreference
    /\ DEFAULT_TTS_PROVIDER = "openai"
    /\ plan = <<"openai", "kokoro">>

\* C13: when the registry knows providers for the capability and none of them
\* is healthy, selection returns one of those known providers, not nothing.
C13_BestEffort ==
    (/\ pc # "idle"
     /\ KnownFor(stt_or_tts) # {}
     /\ \A n \in KnownFor(stt_or_tts) : ~providers[n].healthy) =>
        chosen \in {providers[n] : n \in KnownFor(stt_or_tts)}

\* C14: when the registry knows no provider at all for the capability,
\* selection raises NoProviderConfigured and hands out no provider and no pair.
C14_NoProviderConfigured ==
    (pc # "idle" /\ KnownFor(stt_or_tts) = {}) =>
        /\ "cls" \in DOMAIN chosen
        /\ Contains(chosen.cls, <<"NoProviderConfigured">>)
        /\ plan = NoPlan

\* lexicographic rank of the record names
NameRank(name) ==
    CASE name = "Kokoro" -> 1
      [] name = "OpenAI" -> 2
      [] name = "Whisper" -> 3

\* (not is_local, priority, name) of a comes before or with that of b
SortKeyLE(a, b) ==
    LET ra == IF a.is_local THEN 0 ELSE 1
        rb == IF b.is_local THEN 0 ELSE 1
    IN  \/ ra < rb
        \/ /\ ra = rb
           /\ \/ a.priority < b.priority
              \/ a.priority = b.priority /\ NameRank(a.name) <= NameRank(b.name)

\* C15: the capability query returns its providers sorted by
\* (not is_local, priority, name): local before remote, then ascending
\* priority, then name, whatever the insertion order of the registry.
C15_QueryOrdering ==
    pc # "idle" =>
        \A i, j \in DOMAIN queried : i < j => SortKeyLE(queried[i], queried[j])

\* the capability set of a record: TTS, STT or BOTH
KindOf(v) ==
    IF v.type = <<"tts", "_", "stt">> THEN "both"
    ELSE IF v.type = <<"tts">> THEN "tts"
    ELSE "stt"

\* C16: the healthy-TTS query returns exactly the records that are healthy and
\* of kind TTS or BOTH, the healthy-STT query exactly the healthy records of
\* kind STT or BOTH, each once: no unhealthy record and no record of the other
\* single kind.
C16_QueryFiltering ==
    pc # "idle" =>
        /\ {queried[i] : i \in DOMAIN queried} =
              {providers[n] : n \in {m \in DOMAIN providers :
                  providers[m].healthy /\ KindOf(providers[m]) \in {stt_or_tts, "both"}}}
        /\ \A i, j \in DOMAIN queried : i # j => queried[i] # queried[j]

C16_Witness ==
    /\ pc = "planned"
    /\ stt_or_tts = "tts"
    /\ DOMAIN providers = {"openai", "kokoro", "whisper"}
    /\ ~providers["kokoro"].healthy
    /\ providers["whisper"].healthy
    /\ queried = <<providers["openai"]>>

\* C17: fail-closed: no record of the registry is healthy unless the probe of
\* its provider has run, and before the first discover_all run no record is
\* healthy at all.
C17_FailClosed ==
    /\ \A n \in DOMAIN providers : providers[n].healthy => n \in probed
    /\ lastProbe = NoProbe => \A n \in DOMAIN providers : ~providers[n].healthy

C17_Witness ==
    /\ lastProbe # NoProbe
    /\ WHISPER_SERVER_URL # ""
    /\ "whisper" \notin probed
    /\ ~HealthyIn("whisper")
    /\ HealthyIn("openai")

\* C18: idempotent discovery: a discover_all run that meets the same backend
\* answers as the run before it, under the same configuration, leaves the
\* registry as that run left it.
C18_IdempotentDiscovery == lastProbe.repeat => lastProbe.unchanged

C18_Witness ==
    /\ lastProbe.repeat
    /\ lastProbe.unchanged
    /\ lastProbe.kokoro = Response(200, BodyList)
    /\ HealthyIn("kokoro")
    /\ lastProbe.whisper = TransportError("ConnectError")

\* the request of a probe did not succeed: a transport error, a non-success
\* status, or (where the body is decoded) a body that is not JSON
ProbeFailed(r, decodes) ==
    \/ r.kind # "response"
    \/ r.status # 200
    \/ decodes /\ r.body = BodyMalformed

\* C19: a probe never throws: whatever the request comes to (connection error,
\* timeout, other transport error, non-success status, malformed body),
\* discover_all returns normally and the probed provider has a record with
\* healthy=false and no models or voices.
C19_ProbeNeverThrows ==
    lastProbe # NoProbe =>
        /\ discoverRaised = None
        /\ \A n \in {"kokoro", "whisper"} :
              (lastProbe[n] # None /\ ProbeFailed(lastProbe[n], n = "kokoro")) =>
                  /\ n \in DOMAIN providers
                  /\ ~providers[n].healthy
                  /\ providers[n].available_models = PyList(<<>>)
                  /\ providers[n].available_voices = PyList(<<>>)

\* the server URL the configuration gives a network-backed provider
ConfiguredUrl(n) == IF n = "kokoro" THEN KOKORO_SERVER_URL ELSE WHISPER_SERVER_URL

\* C20: after any sequence of discover_all runs, the record of a network-backed
\* provider is healthy iff the most recent probe of that provider received a
\* success status; a record that is not healthy keeps the endpoint.
C20_HealthyIffLastProbeSucceeded ==
    \A n \in {"kokoro", "whisper"} :
        lastProbe[n] # None =>
            /\ HealthyIn(n) <=> (lastProbe[n].kind = "response" /\ lastProbe[n].status = 200)
            /\ (n \in DOMAIN providers /\ ~providers[n].healthy) =>
                   providers[n].url = ConfiguredUrl(n)

\* the providers the configuration names: a key for openai, a server URL for
\* kokoro and whisper
Configured ==
    (IF OPENAI_API_KEY # "" THEN {"openai"} ELSE {})
    \cup {n \in {"kokoro", "whisper"} : ConfiguredUrl(n) # ""}

\* C21: offline is not absence: after a discover_all that completed, every
\* configured provider has a record in the registry, and a local provider
\* whose probe failed has it with healthy=false.
C21_OfflineIsNotAbsence ==
    (lastProbe # NoProbe /\ discoverRaised = None) =>
        \A n \in Configured :
            /\ n \in DOMAIN providers
            /\ (n # "openai" /\ ProbeFailed(lastProbe[n], n = "kokoro")) =>
                   ~providers[n].healthy

\* C22: the cloud provider is healthy iff its API key is non-empty, whatever
\* the backends answer, both in the registry after discovery and for
\* check_provider_health; a provider with neither server URL nor key is never
\* healthy.
C22_CredentialOnly ==
    /\ "openai" \in probed => (HealthyIn("openai") <=> OPENAI_API_KEY # "")
    /\ lastProbe # NoProbe => (lastProbe.health.openai <=> OPENAI_API_KEY # "")
    /\ \A n \in {"openai", "kokoro", "whisper"} \ Configured :
          ~HealthyIn(n) /\ ~lastProbe.health[n]

C22_Witness ==
    /\ OPENAI_API_KEY # ""
    /\ HealthyIn("openai")
    /\ lastProbe.health.openai
    /\ lastProbe.kr = TransportError("ReadError")
    /\ KOKORO_SERVER_URL # ""
    /\ WHISPER_SERVER_URL = ""
    /\ lastProbe.wr = Response(200, BodyScalar)
    /\ ~HealthyIn("whisper")

\* the voices a decoded body stands for: the body when it is a sequence, the
\* sequence under "voices" when it is an object wrapping one, else none
ExpectedVoices(body) ==
    IF "list" \in DOMAIN body THEN body
    ELSE IF /\ "dict" \in DOMAIN body
            /\ "voices" \in body.dict
            /\ "list" \in DOMAIN body.voices
         THEN body.voices
         ELSE PyList(<<>>)

\* C23: permissive capability parsing: after a successful kokoro probe the
\* voices of the record are the body when it is a bare sequence, the sequence
\* under "voices" when the body is an object wrapping one, and the empty
\* sequence in every other case.
C23_PermissiveParsing ==
    (/\ lastProbe.kokoro # None
     /\ lastProbe.kokoro.kind = "response"
     /\ lastProbe.kokoro.status = 200
     /\ lastProbe.kokoro.body # BodyMalformed) =>
        /\ HealthyIn("kokoro")
        /\ providers["kokoro"].available_voices = ExpectedVoices(lastProbe.kokoro.body)

\* a discover_all probe of provider n that meets r writes a healthy record
RecordsHealthy(n, r) ==
    LET q == IF n = "kokoro" THEN check_kokoro(EmptyDict, r)
             ELSE check_whisper(EmptyDict, r)
    IN  n \in DOMAIN q /\ q[n].healthy

\* C29: the two health checks agree: for a local provider and the answer its
\* backend gave, check_provider_health is true iff the discover_all probe
\* records the provider as healthy on that answer.
C29_HealthChecksAgree ==
    \A n \in {"kokoro", "whisper"} :
        lastProbe[n] # None =>
            (lastProbe.health[n] <=> RecordsHealthy(n, lastProbe[n]))

\* C28: get_preferred_tts returns None or a healthy record whose kind includes
\* TTS, and get_preferred_stt returns None or a healthy record whose kind
\* includes STT, for every registry state and every preferred name.
C28_PreferredHasCapability ==
    pc # "idle" =>
        \/ chosen = None
        \/ chosen.healthy /\ KindOf(chosen) \in {stt_or_tts, "both"}

\* what the secondary call of executor im is told about the failure exc of the
\* primary: the keyword arguments it gets beyond the caller's own and the
\* provider routing
FailureContext(im, kw, secondary_provider, exc) ==
    LET k2 == IF im = "execute_with_failover"
              THEN secondary_call_kwargs(kw, secondary_provider, exc)
              ELSE original_error_kwargs(kw, exc)
    IN  [x \in DOMAIN k2 \ (DOMAIN kw \cup {"provider"}) |-> k2[x]]

\* C30: the two executors are equivalent: on the same caller arguments and the
\* same primary failure, the attempt sequence is primary then secondary, the
\* result is the secondary's value, the error surfaced is the secondary's, and
\* the failure context the running executor hands the secondary is the one
\* either executor hands it.
C30_ExecutorsEquivalent ==
    (Started /\ Len(calls) = 2) =>
        /\ calls[1].site = "primary" /\ calls[2].site = "secondary"
        /\ pc = "success" => result = calls[2].value
        /\ (pc = "fail" /\ calls[2].status = "raised") => raised.exc = calls[2].value
        /\ \A im \in Executors :
              [x \in DOMAIN calls[2].kwargs \ (DOMAIN kwargs0 \cup {"provider"})
                  |-> calls[2].kwargs[x]]
              = FailureContext(im, kwargs0, plan[2], e)

\* C24: concurrent probing: while a discover_all awaits the kokoro probe and
\* whisper is configured too, the whisper probe of the same discover_all is in
\* flight as well; and a discover_all that has returned has no probe in flight.
C24_ConcurrentProbing ==
    \A c \in Callers :
        /\ (task[c] = "kokoro" /\ WHISPER_SERVER_URL # "") => "whisper" \in InFlight(c)
        /\ task[c] = "returned" => InFlight(c) = {}

\* the records one probe of provider n builds, whatever its request comes to
ProbeRecords(n) ==
    LET Written(q) == {q[m] : m \in DOMAIN q}
    IN  IF n = "openai" THEN Written(check_openai(EmptyDict))
        ELSE IF n = "kokoro"
             THEN UNION {Written(check_kokoro(EmptyDict, r)) : r \in ProbeOutcomes}
             ELSE UNION {Written(check_whisper(EmptyDict, r)) : r \in WhisperProbeOutcomes}

\* C25: no torn records: under every interleaving of the callers' discover_all
\* runs, each record in the registry is a whole record built by one probe,
\* never one with fields of two probes.
C25_NoTornRecords ==
    \A n \in DOMAIN providers : providers[n] \in ProbeRecords(n)

C25_Witness ==
    /\ task["c1"] = "whisper"
    /\ task["c2"] = "kokoro"
    /\ "kokoro" \in DOMAIN providers
    /\ ~providers["kokoro"].healthy
    /\ handed["c1"].ran /\ handed["c2"].ran

\* C26: a caller never receives the registry from get_provider_registry while
\* a discover_all started by another caller is still in flight.
C26_CompletedCycleOnly ==
    \A c \in Callers : task[c] = "returned" => ~handed[c].during

\* C27: get_provider_registry runs discover_all iff the registry is empty at
\* the call: a call that finds a record returns without probing, a call that
\* finds none probes.
C27_DiscoverIffEmpty ==
    \A c \in Callers : handed[c].called => (handed[c].ran <=> handed[c].wasEmpty)

C27_Witness ==
    /\ task["c2"] = "returned"
    /\ handed["c2"].called /\ ~handed["c2"].ran /\ ~handed["c2"].wasEmpty
    /\ task["c1"] = "idle"
    /\ ~HealthyIn("kokoro") /\ "kokoro" \in DOMAIN providers

====
